---- MODULE Spec2Model ----
(***************************************************************************)
(* A model of the GNN experiment scripts:                                  *)
(*   Train/GGNN_Train.py      GatedGraphConv.forward, GGNN, train, CLI      *)
(*   GNN_Basics/GNN.py        train, test                                   *)
(*   Conv_layer/ADGN_Message.py  ADGNConv.forward                           *)
(* Tensors whose numeric content is produced by framework operators are     *)
(* modelled by the sequence of framework calls that produced them.          *)
(***************************************************************************)
EXTENDS Integers, Sequences, FiniteSets, TLC

\* ------------------------------------------------------------------ bounds
MaxNodes == 2
MaxWidth == 3
MaxChannels == 2
MaxLayers == 2
\* ADGNConv: largest in_channels, largest gamma
MaxDim == 2
MaxGamma == 2
\* ADGN: largest num_layers, largest epsilon (in tenths, as gamma)
MaxAdgnLayers == 3
MaxEpsilon == 2
\* training loops: largest epoch count, most batches a loader yields
MaxEpochs == 11
MaxBatches == 2
\* GGNN_Train.py: largest --conv given, epochs of the run that left the file
MaxConv == 0
MaxPriorEpochs == 0
\* direct calls of test(): nodes per batch, batches per loader
TestNodes == 2
MaxTestBatches == 2

\* feature values of the input node-feature matrix
FeatureVals == {0, 1}

VARIABLES
    \* GatedGraphConv (Train/GGNN_Train.py)
    out_channels,   \* self.out_channels
    num_layers,     \* self.num_layers
    x_arg,          \* the argument x of forward, as passed by the caller
    x,              \* the local x of forward
    m,              \* the local m of forward
    i,              \* the loop index of forward
    fpc,            \* position inside forward
    ret,            \* the value returned by forward
    \* ADGNConv (Conv_layer/ADGN_Message.py)
    in_channels,    \* self.in_channels
    Weights,        \* self.Weights, in_channels x in_channels
    Identity,       \* self.Identity
    gamma,          \* self.gamma
    antisymmetry,   \* self.antisymmetry
    W,              \* the local W of forward
    apc,            \* position inside ADGNConv.forward
    \* ADGN (Conv_layer/ADGN_Message.py)
    adgn_args,      \* the arguments ADGN(...) is called with
    conv,           \* self.conv, the list of ADGNConv layers
    layer_idx,      \* ADGN.forward: layers of self.conv already applied
    applied,        \* the layers forward has called, with what each used
    mpc,            \* position inside ADGN.__init__ / ADGN.forward
    \* the running script and its training loop (GNN.py, GGNN_Train.py)
    script,         \* which program runs
    pc,             \* position in the script
    task,           \* GNN.py: "node" or "graph"
    epochs,         \* the epochs parameter of train
    epoch,          \* the loop variable of the epoch loop
    loader,         \* the batches the training DataLoader yields
    test_loader,    \* the batches the evaluation DataLoader yields
    batch_idx,      \* batches of loader consumed in this epoch
    data_idx,       \* batches of test_loader consumed in this evaluation
    training,       \* model.training
    params,         \* version of the model parameters
    trace,          \* framework calls made for the current training batch
    batches,        \* training batches taken from the loader so far
    steps,          \* optimizer.step() calls so far
    last_fwd,       \* mode of the latest forward pass
    models,         \* models constructed so far
    returned,       \* the model returned by train (0: none yet)
    is_validation,  \* the is_validation argument of test
    correct,        \* the local correct of test
    test_ret,       \* the value returned by test / the accs of an evaluation
    eval_epochs,    \* epochs whose evaluation has been reported
    \* GGNN_Train.py only
    argv,           \* the command line: per flag, <<>> or <<value>>
    args,           \* parser.parse_args()
    num_conv,       \* the num_conv parameter of train
    best_acc,       \* the local best_acc of train
    model_best_acc, \* model.best_acc
    seen,           \* per split, the accuracies evaluations have produced
    requirements,   \* the local requirements of train
    file,           \* the telemetry file on disk
    file0,          \* the telemetry file as it was when the run started
    writes,         \* times the telemetry file was opened for writing
    title           \* the title passed to plt.title

convVars == <<out_channels, num_layers, x_arg, x, m, i, fpc, ret>>
adgnVars == <<in_channels, Weights, Identity, gamma, antisymmetry, W, apc,
              adgn_args, conv, layer_idx, applied, mpc>>
loopVars == <<script, pc, task, epochs, epoch, loader, test_loader,
              batch_idx, data_idx,
              training, params, trace, batches, steps, last_fwd, models,
              returned, is_validation, correct, test_ret, eval_epochs>>
ggnnVars == <<argv, args, num_conv, best_acc, model_best_acc, seen,
              requirements, file, file0, writes, title>>
vars == <<convVars, adgnVars, loopVars, ggnnVars>>

\* ------------------------------------------------------------------ tensors
\* A tensor is the matrix it started from (base) and the framework calls
\* applied to it since (hist).  An operand a call does not have is -1.
Op(op, w, hid) == [op |-> op, w |-> w, hid |-> hid]
Tensor(mat) == [base |-> mat, hist |-> <<>>]
NoTensor == [base |-> <<>>, hist |-> <<>>]

\* all n x w matrices over FeatureVals
Matrices(n, w) == [1..n -> [1..w -> FeatureVals]]

\* x.size(0), x.size(-1)
Size0(t) == Len(t.base)
SizeLast(t) == Len(t.base[1])

\* x.new_zeros(rows, cols)
NewZeros(rows, cols) == [r \in 1..rows |-> [c \in 1..cols |-> 0]]

\* torch.cat([a, b], dim=1) on matrices with the same number of rows
CatDim1(a, b) == [r \in 1..Len(a) |-> a[r] \o b[r]]

\* torch.matmul(x, self.weight[i])
MatMul(t, layer) == [t EXCEPT !.hist = Append(@, Op("matmul", layer, -1))]
\* self.propagate(edge_index, x=m, ...)
PropagateCall(t) == [t EXCEPT !.hist = Append(@, Op("propagate", -1, -1))]
\* self.rnn(m, h): the hidden operand h is named by the length of its history
RnnCall(mm, h) == [mm EXCEPT !.hist = Append(@, Op("rnn", -1, Len(h.hist)))]

\* ------------------------------------------------- GatedGraphConv.forward
\* if x.size(-1) > self.out_channels: raise ValueError
GuardRaisesGe(t) == SizeLast(t) >= out_channels

GuardRaises(t) == SizeLast(t) > out_channels

FwdGuard ==
    /\ fpc = "guard"
    /\ fpc' = IF GuardRaises(x) THEN "raised" ELSE "pad"
    /\ UNCHANGED <<out_channels, num_layers, x_arg, x, m, i, ret>>
    /\ UNCHANGED <<adgnVars, loopVars, ggnnVars>>

\* if x.size(-1) < self.out_channels: x = cat([x, zeros], dim=1)
PadInput(t) ==
    IF SizeLast(t) < out_channels
    THEN [t EXCEPT !.base =
            CatDim1(@, NewZeros(Size0(t), out_channels - SizeLast(t)))]
    ELSE t

FwdPad ==
    /\ fpc = "pad"
    /\ x' = PadInput(x)
    /\ i' = 0
    /\ fpc' = "loop"
    /\ UNCHANGED <<out_channels, num_layers, x_arg, m, ret>>
    /\ UNCHANGED <<adgnVars, loopVars, ggnnVars>>

\* for i in range(self.num_layers)
LoopBoundOneMore == num_layers + 1

LoopBound == num_layers

FwdLoop ==
    /\ fpc = "loop"
    /\ fpc' = IF i < LoopBound THEN "matmul" ELSE "return"
    /\ UNCHANGED <<out_channels, num_layers, x_arg, x, m, i, ret>>
    /\ UNCHANGED <<adgnVars, loopVars, ggnnVars>>

\* m = torch.matmul(x, self.weight[i])
WeightSlice == i

FwdMatMul ==
    /\ fpc = "matmul"
    /\ m' = MatMul(x, WeightSlice)
    /\ fpc' = "propagate"
    /\ UNCHANGED <<out_channels, num_layers, x_arg, x, i, ret>>
    /\ UNCHANGED <<adgnVars, loopVars, ggnnVars>>

\* m = self.propagate(edge_index, x=m, edge_weight=edge_weight, size=None)
FwdPropagate ==
    /\ fpc = "propagate"
    /\ m' = PropagateCall(m)
    /\ fpc' = "rnn"
    /\ UNCHANGED <<out_channels, num_layers, x_arg, x, i, ret>>
    /\ UNCHANGED <<adgnVars, loopVars, ggnnVars>>

\* x = self.rnn(m, x)
FwdRnn ==
    /\ fpc = "rnn"
    /\ x' = RnnCall(m, x)
    /\ i' = i + 1
    /\ fpc' = "loop"
    /\ UNCHANGED <<out_channels, num_layers, x_arg, m, ret>>
    /\ UNCHANGED <<adgnVars, loopVars, ggnnVars>>

\* return x
FwdReturn ==
    /\ fpc = "return"
    /\ ret' = x
    /\ fpc' = "done"
    /\ UNCHANGED <<out_channels, num_layers, x_arg, x, m, i>>
    /\ UNCHANGED <<adgnVars, loopVars, ggnnVars>>

\* the GatedGraphConv variables of a program that runs no forward
IdleConv ==
    /\ out_channels = 0
    /\ num_layers = 0
    /\ x_arg = <<>>
    /\ x = NoTensor
    /\ m = NoTensor
    /\ i = 0
    /\ fpc = "idle"
    /\ ret = NoTensor

\* the ADGN variables of a program that builds no ADGN
IdleAdgnModel ==
    /\ adgn_args = <<>>
    /\ conv = <<>>
    /\ layer_idx = 0
    /\ applied = <<>>
    /\ mpc = "idle"

\* the ADGNConv variables of a program that builds no ADGNConv
IdleAdgn ==
    /\ in_channels = 0
    /\ Weights = <<>>
    /\ Identity = <<>>
    /\ gamma = 0
    /\ antisymmetry = FALSE
    /\ W = <<>>
    /\ apc = "idle"
    /\ IdleAdgnModel

\* the training-loop variables of a program that runs no script
IdleLoop ==
    /\ script = "none"
    /\ pc = "idle"
    /\ task = "none"
    /\ epochs = 0
    /\ epoch = 0
    /\ loader = <<>>
    /\ test_loader = <<>>
    /\ batch_idx = 0
    /\ data_idx = 0
    /\ training = TRUE
    /\ params = 0
    /\ trace = <<>>
    /\ batches = 0
    /\ steps = 0
    /\ last_fwd = [by |-> "none", training |-> TRUE, grad |-> TRUE]
    /\ models = 0
    /\ returned = 0
    /\ is_validation = FALSE
    /\ correct = 0
    /\ test_ret = <<>>
    /\ eval_epochs = <<>>

NoFile == [exists |-> FALSE, content |-> <<>>]

\* the GGNN_Train.py variables of a program that is not GGNN_Train.py
IdleGgnn ==
    /\ argv = [epoch |-> <<>>, conv |-> <<>>]
    /\ args = [epoch |-> 0, conv |-> 0]
    /\ num_conv = 0
    /\ best_acc = <<>>
    /\ model_best_acc = <<>>
    /\ seen = <<{}, {}, {}>>
    /\ requirements = <<>>
    /\ file = NoFile
    /\ file0 = NoFile
    /\ writes = 0
    /\ title = <<>>

\* A GatedGraphConv(out_channels, num_layers) called on a node-feature matrix.
InitConv ==
    /\ IdleAdgn
    /\ IdleLoop
    /\ IdleGgnn
    /\ out_channels \in 1..MaxChannels
    /\ num_layers \in 0..MaxLayers
    /\ \E n \in 1..MaxNodes, w \in 0..MaxWidth : x_arg \in Matrices(n, w)
    /\ x = Tensor(x_arg)
    /\ m = NoTensor
    /\ i = 0
    /\ fpc = "guard"
    /\ ret = NoTensor

NextConv ==
    \/ FwdGuard
    \/ FwdPad
    \/ FwdLoop
    \/ FwdMatMul
    \/ FwdPropagate
    \/ FwdRnn
    \/ FwdReturn

SpecConv == InitConv /\ [][NextConv]_vars

\* ------------------------------------------------------ ADGNConv.forward
\* values of the entries of the learnable matrix
WeightVals == {-1, 0, 1}

SquareMatrices(n, vals) == [1..n -> [1..n -> vals]]

\* torch.eye(n)
Eye(n) == [r \in 1..n |-> [c \in 1..n |-> IF r = c THEN 1 ELSE 0]]
\* A.T
Transpose(A) == [r \in 1..Len(A) |-> [c \in 1..Len(A) |-> A[c][r]]]
\* A - B, A + B, s * A (elementwise)
MatSub(A, B) == [r \in 1..Len(A) |-> [c \in 1..Len(A) |-> A[r][c] - B[r][c]]]
MatAdd(A, B) == [r \in 1..Len(A) |-> [c \in 1..Len(A) |-> A[r][c] + B[r][c]]]
Scale(s, A) == [r \in 1..Len(A) |-> [c \in 1..Len(A) |-> s * A[r][c]]]

\* (self.Weights - self.Weights.T) - (self.gamma * self.Identity)
AntisymmetricWPlus == MatSub(MatAdd(Weights, Transpose(Weights)), Scale(gamma, Identity))

AntisymmetricW == MatSub(MatSub(Weights, Transpose(Weights)), Scale(gamma, Identity))

\* W = (...) if self.antisymmetry else self.Weights
AdgnForwardW ==
    /\ apc = "start"
    /\ W' = IF antisymmetry THEN AntisymmetricW ELSE Weights
    /\ apc' = "propagate"
    /\ UNCHANGED <<in_channels, Weights, Identity, gamma, antisymmetry>>
    /\ UNCHANGED <<adgn_args, conv, layer_idx, applied, mpc>>
    /\ UNCHANGED <<convVars, loopVars, ggnnVars>>

\* An ADGNConv(in_channels, in_channels, gamma, antisymmetry) whose Weights
\* have any value training may have given them, about to run forward.
InitAdgn ==
    /\ IdleConv
    /\ IdleLoop
    /\ IdleGgnn
    /\ in_channels \in 1..MaxDim
    /\ Weights \in SquareMatrices(in_channels, WeightVals)
    /\ Identity = Eye(in_channels)
    /\ gamma \in 0..MaxGamma
    /\ antisymmetry \in BOOLEAN
    /\ W = <<>>
    /\ apc = "start"
    /\ IdleAdgnModel

NextAdgn ==
    \/ AdgnForwardW

SpecADGN == InitAdgn /\ [][NextAdgn]_vars

\* ------------------------------------------------------------------ C8
\* C8: once forward has computed W: with antisymmetry enabled every entry
\* W[r][c] is Weights[r][c] - Weights[c][r], less gamma on the diagonal, so
\* W + W^T = -2*gamma*I and every diagonal entry is -gamma; with
\* antisymmetry disabled W is Weights.
C8_AntisymmetricWeights ==
    apc = "propagate" =>
        IF antisymmetry
        THEN \A r, c \in 1..in_channels :
                /\ W[r][c] = Weights[r][c] - Weights[c][r]
                                - (IF r = c THEN gamma ELSE 0)
                /\ W[r][c] + W[c][r] = (IF r = c THEN (0 - 2) * gamma ELSE 0)
                /\ r = c => W[r][c] = 0 - gamma
        ELSE W = Weights

\* forward has run with antisymmetry on a non-symmetric matrix, gamma > 0
C8_Witness ==
    /\ apc = "propagate"
    /\ antisymmetry
    /\ gamma > 0
    /\ in_channels >= 2
    /\ Weights[1][2] # Weights[2][1]
    /\ W[1][2] # 0

\* ------------------------------------------------- ADGN.__init__ / forward
\* epsilon and gamma are counted in tenths: the defaults 0.1 are 1
DefaultGamma == 1
DefaultEpsilon == 1

\* ADGNConv.__init__(in_channels, out_channels, gamma, epsilon, antisymmetry):
\* the configuration the layer stores and its forward reads
ADGNConv(g, e, a) == [gamma |-> g, epsilon |-> e, antisymmetry |-> a]

\* len(range(a, b))
RangeLen(a, b) == IF b > a THEN b - a ELSE 0

\* ADGNConv(in_channels=self.hidden_dim, out_channels=self.hidden_dim): the
\* call names no gamma, epsilon or antisymmetry, so the layer takes the
\* defaults of ADGNConv.__init__
NewConvLayer == ADGNConv(DefaultGamma, DefaultEpsilon, TRUE)

\* self.conv = nn.ModuleList(); for _ in range(1, num_layers): self.conv.append(...)
Adgn_Construct ==
    /\ mpc = "construct"
    /\ conv' = [k \in 1..RangeLen(1, adgn_args.num_layers) |-> NewConvLayer]
    /\ mpc' = "forward"
    /\ UNCHANGED <<in_channels, Weights, Identity, gamma, antisymmetry, W, apc>>
    /\ UNCHANGED <<adgn_args, layer_idx, applied>>
    /\ UNCHANGED <<convVars, loopVars, ggnnVars>>

\* forward: emb = None; x = self.emb(x)
Adgn_ForwardEmb ==
    /\ mpc = "forward"
    /\ layer_idx' = 0
    /\ applied' = <<>>
    /\ mpc' = "conv_loop"
    /\ UNCHANGED <<in_channels, Weights, Identity, gamma, antisymmetry, W, apc>>
    /\ UNCHANGED <<adgn_args, conv>>
    /\ UNCHANGED <<convVars, loopVars, ggnnVars>>

\* what ADGNConv.forward of layer c reads: self.antisymmetry and self.gamma
\* for W, self.epsilon for the step
LayerCall(k, c) ==
    [layer |-> k, gamma |-> c.gamma, epsilon |-> c.epsilon,
     antisymmetry |-> c.antisymmetry]

\* for conv in self.conv: x = conv(x, edge_idx); emb = x
Adgn_ForwardConv ==
    /\ mpc = "conv_loop"
    /\ IF layer_idx < Len(conv)
       THEN /\ layer_idx' = layer_idx + 1
            /\ applied' = Append(applied, LayerCall(layer_idx', conv[layer_idx']))
            /\ mpc' = "conv_loop"
       ELSE /\ mpc' = "linear"
            /\ UNCHANGED <<layer_idx, applied>>
    /\ UNCHANGED <<in_channels, Weights, Identity, gamma, antisymmetry, W, apc>>
    /\ UNCHANGED <<adgn_args, conv>>
    /\ UNCHANGED <<convVars, loopVars, ggnnVars>>

\* x = self.linear(x); return emb, x
Adgn_ForwardLinear ==
    /\ mpc = "linear"
    /\ mpc' = "done"
    /\ UNCHANGED <<in_channels, Weights, Identity, gamma, antisymmetry, W, apc>>
    /\ UNCHANGED <<adgn_args, conv, layer_idx, applied>>
    /\ UNCHANGED <<convVars, loopVars, ggnnVars>>

\* ADGN(in_channels, hidden_dim, out_channels, num_layers, epsilon, gamma,
\* antisymmetric) is called with any arguments; its forward runs once.
InitAdgnModel ==
    /\ IdleConv
    /\ IdleLoop
    /\ IdleGgnn
    /\ in_channels = 0
    /\ Weights = <<>>
    /\ Identity = <<>>
    /\ gamma = 0
    /\ antisymmetry = FALSE
    /\ W = <<>>
    /\ apc = "idle"
    /\ adgn_args \in [num_layers : 0..MaxAdgnLayers,
                       epsilon : 0..MaxEpsilon,
                       gamma : 0..MaxGamma,
                       antisymmetric : BOOLEAN]
    /\ conv = <<>>
    /\ layer_idx = 0
    /\ applied = <<>>
    /\ mpc = "construct"

NextAdgnModel ==
    \/ Adgn_Construct
    \/ Adgn_ForwardEmb
    \/ Adgn_ForwardConv
    \/ Adgn_ForwardLinear

SpecAdgnModel == InitAdgnModel /\ [][NextAdgnModel]_vars

\* ------------------------------------------------------------ datasets
\* class labels / predicted classes
Classes == {0, 1}

SeqsUpTo(S, n) == UNION {[1..k -> S] : k \in 0..n}

\* A batch as the DataLoader yields it: the collated fields of its graphs.
\* In the node task y and the masks have one entry per node; in the graph
\* task y has one entry per graph and there are no masks.
\* (train_masks: the training masks considered)
NodeBatches(n, labels, train_masks) ==
    [y : [1..n -> labels], train_mask : train_masks,
     val_mask : [1..n -> BOOLEAN], test_mask : [1..n -> BOOLEAN]]
GraphBatches(n, labels) ==
    [y : [1..n -> labels], train_mask : {<<>>}, val_mask : {<<>>},
     test_mask : {<<>>}]

\* ------------------------------------------------------------ arithmetic
RECURSIVE Gcd(_, _)
Gcd(p, q) == IF q = 0 THEN p ELSE Gcd(q, p % q)

\* the quotient n / d (d > 0, n >= 0) as a fraction in lowest terms
Frac(n, d) == LET g == Gcd(n, d) IN <<n \div g, d \div g>>

\* t[mask]: the entries of t the boolean mask selects
RECURSIVE Masked(_, _)
Masked(t, mask) ==
    IF t = <<>> THEN <<>>
    ELSE (IF Head(mask) THEN <<Head(t)>> ELSE <<>>) \o Masked(Tail(t), Tail(mask))

\* pred.eq(label).sum().item()
EqSum(pred, label) == Cardinality({k \in 1..Len(pred) : pred[k] = label[k]})

\* mask.sum().item()
MaskSum(mask) == Cardinality({k \in 1..Len(mask) : mask[k]})

\* len(loader.dataset): the graphs of all batches (graph task: one label each)
RECURSIVE DatasetLen(_)
DatasetLen(ld) == IF ld = <<>> THEN 0 ELSE Len(Head(ld).y) + DatasetLen(Tail(ld))

\* for data in loader.dataset: total += torch.sum(data.test_mask).item()
RECURSIVE TestMaskTotal(_)
TestMaskTotal(ld) ==
    IF ld = <<>> THEN 0 ELSE MaskSum(Head(ld).test_mask) + TestMaskTotal(Tail(ld))

\* ------------------------------------------------------- GNN.py test()
\* model.eval(); correct = 0
Test_Eval ==
    /\ pc = "test_eval"
    /\ training' = FALSE
    /\ correct' = 0
    /\ data_idx' = 0
    /\ pc' = "test_batch"
    /\ UNCHANGED <<script, task, epochs, epoch, loader, test_loader, batch_idx,
                   params, trace, batches, steps, last_fwd, models, returned,
                   is_validation, test_ret, eval_epochs>>
    /\ UNCHANGED <<convVars, adgnVars, ggnnVars>>

\* mask = data.val_mask if is_validation else data.test_mask
TestMaskOf(data) == IF is_validation THEN data.val_mask ELSE data.test_mask

\* the body of "for data in loader": forward under no_grad, argmax, mask, count
Test_Batch ==
    /\ pc = "test_batch"
    /\ data_idx < Len(test_loader)
    /\ LET data == test_loader[data_idx + 1]
       IN \E pred \in [1..Len(data.y) -> Classes] :
            correct' = correct +
                (IF task = "node"
                 THEN EqSum(Masked(pred, TestMaskOf(data)),
                            Masked(data.y, TestMaskOf(data)))
                 ELSE EqSum(pred, data.y))
    /\ last_fwd' = [by |-> "eval", training |-> training, grad |-> FALSE]
    /\ data_idx' = data_idx + 1
    /\ UNCHANGED <<script, pc, task, epochs, epoch, loader, test_loader,
                   batch_idx, training, params, trace, batches, steps, models,
                   returned, is_validation, test_ret, eval_epochs>>
    /\ UNCHANGED <<convVars, adgnVars, ggnnVars>>

\* total = len(loader.dataset) for graphs, else the test-mask node count
TestTotal == IF task = "graph" THEN DatasetLen(test_loader)
             ELSE TestMaskTotal(test_loader)

\* return correct / total  (ZeroDivisionError when total is 0)
Test_Return ==
    /\ pc = "test_batch"
    /\ data_idx = Len(test_loader)
    /\ IF TestTotal = 0
       THEN /\ pc' = "crashed"
            /\ UNCHANGED test_ret
       ELSE /\ test_ret' = Frac(correct, TestTotal)
            /\ pc' = IF script = "GNN" THEN "log_acc" ELSE "done"
    /\ UNCHANGED <<script, task, epochs, epoch, loader, test_loader, batch_idx,
                   data_idx, training, params, trace, batches, steps, last_fwd,
                   models, returned, is_validation, correct, eval_epochs>>
    /\ UNCHANGED <<convVars, adgnVars, ggnnVars>>

\* ------------------------------------------------------- GNN.py train()
\* model = GCN(...); opt = optim.Adam(model.parameters(), lr=0.01)
Gnn_Construct ==
    /\ script = "GNN"
    /\ pc = "construct"
    /\ models' = models + 1
    /\ pc' = "epoch_head"
    /\ UNCHANGED <<script, task, epochs, epoch, loader, test_loader, batch_idx,
                   data_idx, training, params, trace, batches, steps, last_fwd,
                   returned, is_validation, correct, test_ret, eval_epochs>>
    /\ UNCHANGED <<convVars, adgnVars, ggnnVars>>

\* (variant: the epoch starts without model.train())
Gnn_EpochHeadNoTrain ==
    /\ script = "GNN"
    /\ pc = "epoch_head"
    /\ IF epoch + 1 < epochs
       THEN /\ epoch' = epoch + 1
            /\ batch_idx' = 0
            /\ pc' = "batch_head"
       ELSE /\ pc' = "return"
            /\ UNCHANGED <<epoch, batch_idx>>
    /\ UNCHANGED <<script, task, epochs, loader, test_loader, data_idx, params,
                   trace, batches, steps, last_fwd, models, returned,
                   is_validation, correct, test_ret, eval_epochs, training>>
    /\ UNCHANGED <<convVars, adgnVars, ggnnVars>>

\* for epoch in range(0, epochs): total_loss = 0; model.train()
Gnn_EpochHead ==
    /\ script = "GNN"
    /\ pc = "epoch_head"
    /\ IF epoch + 1 < epochs
       THEN /\ epoch' = epoch + 1
            /\ training' = TRUE
            /\ batch_idx' = 0
            /\ pc' = "batch_head"
       ELSE /\ pc' = "return"
            /\ UNCHANGED <<epoch, training, batch_idx>>
    /\ UNCHANGED <<script, task, epochs, loader, test_loader, data_idx, params,
                   trace, batches, steps, last_fwd, models, returned,
                   is_validation, correct, test_ret, eval_epochs>>
    /\ UNCHANGED <<convVars, adgnVars, ggnnVars>>

\* for batch in loader
Gnn_BatchHead ==
    /\ script = "GNN"
    /\ pc = "batch_head"
    /\ IF batch_idx < Len(loader)
       THEN /\ batches' = batches + 1
            /\ trace' = <<>>
            /\ pc' = "zero_grad"
       ELSE /\ pc' = "epoch_end"
            /\ UNCHANGED <<batches, trace>>
    /\ UNCHANGED <<script, task, epochs, epoch, loader, test_loader, batch_idx,
                   data_idx, training, params, steps, last_fwd, models,
                   returned, is_validation, correct, test_ret, eval_epochs>>
    /\ UNCHANGED <<convVars, adgnVars, ggnnVars>>

\* opt.zero_grad()
Gnn_ZeroGrad ==
    /\ script = "GNN"
    /\ pc = "zero_grad"
    /\ trace' = Append(trace, "zero_grad")
    /\ pc' = "forward"
    /\ UNCHANGED <<script, task, epochs, epoch, loader, test_loader, batch_idx,
                   data_idx, training, params, batches, steps, last_fwd,
                   models, returned, is_validation, correct, test_ret,
                   eval_epochs>>
    /\ UNCHANGED <<convVars, adgnVars, ggnnVars>>

\* embedding, pred = model(batch)
Gnn_Forward ==
    /\ script = "GNN"
    /\ pc = "forward"
    /\ trace' = Append(trace, "forward")
    /\ last_fwd' = [by |-> "train", training |-> training, grad |-> TRUE]
    /\ pc' = "loss"
    /\ UNCHANGED <<script, task, epochs, epoch, loader, test_loader, batch_idx,
                   data_idx, training, params, batches, steps, models,
                   returned, is_validation, correct, test_ret, eval_epochs>>
    /\ UNCHANGED <<convVars, adgnVars, ggnnVars>>

\* loss = model.loss(pred, label)
Gnn_Loss ==
    /\ script = "GNN"
    /\ pc = "loss"
    /\ trace' = Append(trace, "loss")
    /\ pc' = "backward"
    /\ UNCHANGED <<script, task, epochs, epoch, loader, test_loader, batch_idx,
                   data_idx, training, params, batches, steps, last_fwd,
                   models, returned, is_validation, correct, test_ret,
                   eval_epochs>>
    /\ UNCHANGED <<convVars, adgnVars, ggnnVars>>

\* loss.backward()
Gnn_Backward ==
    /\ script = "GNN"
    /\ pc = "backward"
    /\ trace' = Append(trace, "backward")
    /\ pc' = "step"
    /\ UNCHANGED <<script, task, epochs, epoch, loader, test_loader, batch_idx,
                   data_idx, training, params, batches, steps, last_fwd,
                   models, returned, is_validation, correct, test_ret,
                   eval_epochs>>
    /\ UNCHANGED <<convVars, adgnVars, ggnnVars>>

\* opt.step(); total_loss += ...
Gnn_Step ==
    /\ script = "GNN"
    /\ pc = "step"
    /\ trace' = Append(trace, "step")
    /\ params' = params + 1
    /\ steps' = steps + 1
    /\ batch_idx' = batch_idx + 1
    /\ pc' = "batch_head"
    /\ UNCHANGED <<script, task, epochs, epoch, loader, test_loader, data_idx,
                   training, batches, last_fwd, models, returned,
                   is_validation, correct, test_ret, eval_epochs>>
    /\ UNCHANGED <<convVars, adgnVars, ggnnVars>>

\* (variant: epochs counted from 1)
Gnn_EvalDueShifted == (epoch + 1) % 10 = 0

\* if epoch % 10 == 0
Gnn_EvalDue == epoch % 10 = 0

\* total_loss /= len(loader.dataset) (ZeroDivisionError on an empty training
\* split); writer.add_scalar("Loss", ...); the evaluation test
Gnn_EpochEnd ==
    /\ script = "GNN"
    /\ pc = "epoch_end"
    /\ IF DatasetLen(loader) = 0
       THEN pc' = "crashed"
       ELSE pc' = IF Gnn_EvalDue THEN "test_eval" ELSE "epoch_head"
    /\ UNCHANGED <<script, task, epochs, epoch, loader, test_loader, batch_idx,
                   data_idx, training, params, trace, batches, steps, last_fwd,
                   models, returned, is_validation, correct, test_ret,
                   eval_epochs>>
    /\ UNCHANGED <<convVars, adgnVars, ggnnVars>>

\* test_acc = test(test_loader, model) has returned: print, writer.add_scalar
Gnn_LogAcc ==
    /\ script = "GNN"
    /\ pc = "log_acc"
    /\ eval_epochs' = Append(eval_epochs, epoch)
    /\ pc' = "epoch_head"
    /\ UNCHANGED <<script, task, epochs, epoch, loader, test_loader, batch_idx,
                   data_idx, training, params, trace, batches, steps, last_fwd,
                   models, returned, is_validation, correct, test_ret>>
    /\ UNCHANGED <<convVars, adgnVars, ggnnVars>>

\* return model
Gnn_Return ==
    /\ script = "GNN"
    /\ pc = "return"
    /\ returned' = models
    /\ pc' = "done"
    /\ UNCHANGED <<script, task, epochs, epoch, loader, test_loader, batch_idx,
                   data_idx, training, params, trace, batches, steps, last_fwd,
                   models, is_validation, correct, test_ret, eval_epochs>>
    /\ UNCHANGED <<convVars, adgnVars, ggnnVars>>

\* the batches of the training-loop runs: one node (or graph) each, label 0
LoopNodeBatches == NodeBatches(1, {0}, {<<TRUE>>})
LoopGraphBatches == GraphBatches(1, {0})

\* train(dataset, task, conv_layer, writer, epochs) is entered.  In the node
\* task test_loader and loader are the same DataLoader; in the graph task
\* they are the loaders of the two splits.
InitGnn ==
    /\ script = "GNN"
    /\ pc = "construct"
    /\ task \in {"node", "graph"}
    /\ epochs \in 0..MaxEpochs
    /\ epoch = -1
    /\ IF task = "node"
       THEN /\ loader \in SeqsUpTo(LoopNodeBatches, MaxBatches)
            /\ test_loader = loader
       ELSE /\ loader \in SeqsUpTo(LoopGraphBatches, MaxBatches)
            /\ test_loader \in SeqsUpTo(LoopGraphBatches, MaxBatches)
    /\ batch_idx = 0
    /\ data_idx = 0
    /\ training = TRUE
    /\ params = 0
    /\ trace = <<>>
    /\ batches = 0
    /\ steps = 0
    /\ last_fwd = [by |-> "none", training |-> TRUE, grad |-> TRUE]
    /\ models = 0
    /\ returned = 0
    /\ is_validation = FALSE
    /\ correct = 0
    /\ test_ret = <<>>
    /\ eval_epochs = <<>>

NextGnn ==
    \/ Gnn_Construct
    \/ Gnn_EpochHead
    \/ Gnn_BatchHead
    \/ Gnn_ZeroGrad
    \/ Gnn_Forward
    \/ Gnn_Loss
    \/ Gnn_Backward
    \/ Gnn_Step
    \/ Gnn_EpochEnd
    \/ Gnn_LogAcc
    \/ Gnn_Return

NextTestFn ==
    \/ Test_Eval
    \/ Test_Batch
    \/ Test_Return

\* test(loader, model, is_validation) called directly on any loader, in
\* either task, with either mask choice, the model in either mode.
InitTest ==
    /\ IdleConv
    /\ IdleAdgn
    /\ IdleGgnn
    /\ script = "test"
    /\ pc = "test_eval"
    /\ task \in {"node", "graph"}
    /\ is_validation \in BOOLEAN
    /\ IF task = "node"
       THEN test_loader \in SeqsUpTo(NodeBatches(TestNodes, Classes,
                                               {[k \in 1..TestNodes |-> FALSE]}),
                                   MaxTestBatches)
       ELSE test_loader \in SeqsUpTo(GraphBatches(TestNodes, Classes), MaxTestBatches)
    /\ loader = test_loader
    /\ training \in BOOLEAN
    /\ epochs = 0
    /\ epoch = 0
    /\ batch_idx = 0
    /\ data_idx = 0
    /\ params = 0
    /\ trace = <<>>
    /\ batches = 0
    /\ steps = 0
    /\ last_fwd = [by |-> "none", training |-> TRUE, grad |-> TRUE]
    /\ models = 1
    /\ returned = 0
    /\ correct = 0
    /\ test_ret = <<>>
    /\ eval_epochs = <<>>

SpecTest == InitTest /\ [][NextTestFn]_vars

\* -------------------------------------------------------- GGNN_Train.py
\* parser.add_argument("--epoch", ..., default=100) / ("--conv", ..., default=3)
DefaultEpoch == 100
DefaultConv == 3
\* GGNN(..., out_channels=32, ...)
GgnnOutChannels == 32

\* the single PubMed graph, scaled down to three nodes with disjoint masks
PubMedData ==
    [y |-> <<0, 0, 0>>,
     train_mask |-> <<TRUE, FALSE, FALSE>>,
     val_mask |-> <<FALSE, TRUE, FALSE>>,
     test_mask |-> <<FALSE, FALSE, TRUE>>]

\* Python's max(p, q) on fractions with positive denominators
RatLess(p, q) == p[1] * q[2] < q[1] * p[2]
RatMax(p, q) == IF RatLess(p, q) THEN q ELSE p

\* computeStats(start_time, epoch, process, num_cpus, requirements): records
\* one sample of process-resource usage for the given epoch in requirements
ComputeStats(req, e) == Append(req, e)

\* what a completed earlier run of k epochs left in the telemetry file
RECURSIVE PriorRun(_)
PriorRun(k) == IF k = 0 THEN <<-1>> ELSE Append(PriorRun(k - 1), k - 1)

\* value of a flag: the default when the flag is omitted
FlagValue(given, default) == IF given = <<>> THEN default ELSE given[1]

\* args = parser.parse_args()
Ggnn_ParseArgs ==
    /\ script = "GGNN_Train"
    /\ pc = "parse"
    /\ args' = [epoch |-> FlagValue(argv.epoch, DefaultEpoch),
                conv |-> FlagValue(argv.conv, DefaultConv)]
    /\ pc' = "call_train"
    /\ UNCHANGED <<script, task, epochs, epoch, loader, test_loader,
                   batch_idx, data_idx, training, params, trace, batches,
                   steps, last_fwd, models, returned, is_validation, correct,
                   test_ret, eval_epochs, argv, num_conv, best_acc,
                   model_best_acc, seen, requirements, file, file0, writes,
                   title, out_channels, num_layers>>
    /\ UNCHANGED <<x_arg, x, m, i, fpc, ret, adgnVars>>

\* (variant: the two flags are swapped in the call)
EpochsPassedSwapped == args.conv

\* epochs = args.epoch; convs = args.conv; train(dataset, epochs=epochs, ...)
EpochsPassed == args.epoch
ConvsPassed == args.conv

\* model = train(dataset, epochs=epochs, num_conv=convs, learning_rate=0.001)
Ggnn_CallTrain ==
    /\ script = "GGNN_Train"
    /\ pc = "call_train"
    /\ epochs' = EpochsPassed
    /\ num_conv' = ConvsPassed
    /\ pc' = "construct"
    /\ UNCHANGED <<script, task, epoch, loader, test_loader, batch_idx,
                   data_idx, training, params, trace, batches, steps,
                   last_fwd, models, returned, is_validation, correct,
                   test_ret, eval_epochs, argv, args, best_acc,
                   model_best_acc, seen, requirements, file, file0, writes,
                   title, out_channels, num_layers>>
    /\ UNCHANGED <<x_arg, x, m, i, fpc, ret, adgnVars>>

\* GatedGraphConv(out_channels=out_channels, num_layers=num_conv)
ConvLayersBuilt == num_conv

\* model = GGNN(..., out_channels=32, num_conv=num_conv); optimizer; best_acc = [0, 0, 0]
\* (Tensor(num_layers, ...) raises for a negative num_layers)
Ggnn_Construct ==
    /\ script = "GGNN_Train"
    /\ pc = "construct"
    /\ IF num_conv < 0
       THEN /\ pc' = "crashed"
            /\ UNCHANGED <<models, out_channels, num_layers, model_best_acc,
                           best_acc>>
       ELSE /\ models' = models + 1
            /\ out_channels' = GgnnOutChannels
            /\ num_layers' = ConvLayersBuilt
            /\ model_best_acc' = <<-1, 1>>
            /\ best_acc' = << <<0, 1>>, <<0, 1>>, <<0, 1>> >>
            /\ pc' = "load"
    /\ UNCHANGED <<script, task, epochs, epoch, loader, test_loader,
                   batch_idx, data_idx, training, params, trace, batches,
                   steps, last_fwd, returned, is_validation, correct,
                   test_ret, eval_epochs, argv, args, num_conv, seen,
                   requirements, file, file0, writes, title>>
    /\ UNCHANGED <<x_arg, x, m, i, fpc, ret, adgnVars>>

\* (variant: the existing file is not re-imported)
LoadedRequirementsFresh == <<>>

\* requirements = {}; if os.path.exists(file_path): requirements = json.load(file)
LoadedRequirements == IF file.exists THEN file.content ELSE <<>>

\* the requirements dictionary is created, or re-imported from the file
Ggnn_LoadRequirements ==
    /\ script = "GGNN_Train"
    /\ pc = "load"
    /\ requirements' = LoadedRequirements
    /\ pc' = "stats"
    /\ UNCHANGED <<script, task, epochs, epoch, loader, test_loader,
                   batch_idx, data_idx, training, params, trace, batches,
                   steps, last_fwd, models, returned, is_validation, correct,
                   test_ret, eval_epochs, argv, args, num_conv, best_acc,
                   model_best_acc, seen, file, file0, writes, title,
                   out_channels, num_layers>>
    /\ UNCHANGED <<x_arg, x, m, i, fpc, ret, adgnVars>>

\* computeStats(start_time, -1, current_process, -1, requirements)
Ggnn_InitialStats ==
    /\ script = "GGNN_Train"
    /\ pc = "stats"
    /\ requirements' = ComputeStats(requirements, -1)
    /\ pc' = "epoch_head"
    /\ UNCHANGED <<script, task, epochs, epoch, loader, test_loader,
                   batch_idx, data_idx, training, params, trace, batches,
                   steps, last_fwd, models, returned, is_validation, correct,
                   test_ret, eval_epochs, argv, args, num_conv, best_acc,
                   model_best_acc, seen, file, file0, writes, title,
                   out_channels, num_layers>>
    /\ UNCHANGED <<x_arg, x, m, i, fpc, ret, adgnVars>>

\* for epoch in range(1, epochs + 1): model.train(); computeStats(start_time, epoch-1, ...)
Ggnn_EpochHead ==
    /\ script = "GGNN_Train"
    /\ pc = "epoch_head"
    /\ IF epoch + 1 < epochs + 1
       THEN /\ epoch' = epoch + 1
            /\ training' = TRUE
            /\ requirements' = ComputeStats(requirements, epoch' - 1)
            /\ batch_idx' = 0
            /\ pc' = "batch_head"
       ELSE /\ pc' = "dump"
            /\ UNCHANGED <<epoch, training, requirements, batch_idx>>
    /\ UNCHANGED <<script, task, epochs, loader, test_loader, data_idx,
                   params, trace, batches, steps, last_fwd, models, returned,
                   is_validation, correct, test_ret, eval_epochs, argv, args,
                   num_conv, best_acc, model_best_acc, seen, file, file0,
                   writes, title, out_channels, num_layers>>
    /\ UNCHANGED <<x_arg, x, m, i, fpc, ret, adgnVars>>

\* for batch in loader
Ggnn_BatchHead ==
    /\ script = "GGNN_Train"
    /\ pc = "batch_head"
    /\ IF batch_idx < Len(loader)
       THEN /\ batches' = batches + 1
            /\ trace' = <<>>
            /\ pc' = "zero_grad"
       ELSE /\ pc' = "epoch_end"
            /\ UNCHANGED <<batches, trace>>
    /\ UNCHANGED <<script, task, epochs, epoch, loader, test_loader,
                   batch_idx, data_idx, training, params, steps, last_fwd,
                   models, returned, is_validation, correct, test_ret,
                   eval_epochs, argv, args, num_conv, best_acc,
                   model_best_acc, seen, requirements, file, file0, writes,
                   title, out_channels, num_layers>>
    /\ UNCHANGED <<x_arg, x, m, i, fpc, ret, adgnVars>>

\* optimizer.zero_grad()
Ggnn_ZeroGrad ==
    /\ script = "GGNN_Train"
    /\ pc = "zero_grad"
    /\ trace' = Append(trace, "zero_grad")
    /\ pc' = "forward"
    /\ UNCHANGED <<script, task, epochs, epoch, loader, test_loader,
                   batch_idx, data_idx, training, params, batches, steps,
                   last_fwd, models, returned, is_validation, correct,
                   test_ret, eval_epochs, argv, args, num_conv, best_acc,
                   model_best_acc, seen, requirements, file, file0, writes,
                   title, out_channels, num_layers>>
    /\ UNCHANGED <<x_arg, x, m, i, fpc, ret, adgnVars>>

\* emb_x, pred = model(batch)
Ggnn_Forward ==
    /\ script = "GGNN_Train"
    /\ pc = "forward"
    /\ trace' = Append(trace, "forward")
    /\ last_fwd' = [by |-> "train", training |-> training, grad |-> TRUE]
    /\ pc' = "loss"
    /\ UNCHANGED <<script, task, epochs, epoch, loader, test_loader,
                   batch_idx, data_idx, training, params, batches, steps,
                   models, returned, is_validation, correct, test_ret,
                   eval_epochs, argv, args, num_conv, best_acc,
                   model_best_acc, seen, requirements, file, file0, writes,
                   title, out_channels, num_layers>>
    /\ UNCHANGED <<x_arg, x, m, i, fpc, ret, adgnVars>>

\* loss = loss_fn(pred, label)
Ggnn_Loss ==
    /\ script = "GGNN_Train"
    /\ pc = "loss"
    /\ trace' = Append(trace, "loss")
    /\ pc' = "backward"
    /\ UNCHANGED <<script, task, epochs, epoch, loader, test_loader,
                   batch_idx, data_idx, training, params, batches, steps,
                   last_fwd, models, returned, is_validation, correct,
                   test_ret, eval_epochs, argv, args, num_conv, best_acc,
                   model_best_acc, seen, requirements, file, file0, writes,
                   title, out_channels, num_layers>>
    /\ UNCHANGED <<x_arg, x, m, i, fpc, ret, adgnVars>>

\* (variant: backward on the first loss, the loss computed again after it)
Ggnn_BackwardThenLoss ==
    /\ script = "GGNN_Train"
    /\ pc = "backward"
    /\ trace' = trace \o <<"backward", "loss">>
    /\ pc' = "step"
    /\ UNCHANGED <<script, task, epochs, epoch, loader, test_loader,
                   batch_idx, data_idx, training, params, batches, steps,
                   last_fwd, models, returned, is_validation, correct,
                   test_ret, eval_epochs, argv, args, num_conv, best_acc,
                   model_best_acc, seen, requirements, file, file0, writes,
                   title, out_channels, num_layers>>
    /\ UNCHANGED <<x_arg, x, m, i, fpc, ret, adgnVars>>

\* loss_fn(pred, label).backward(): the loss is computed again, then backward
Ggnn_Backward ==
    /\ script = "GGNN_Train"
    /\ pc = "backward"
    /\ trace' = trace \o <<"loss", "backward">>
    /\ pc' = "step"
    /\ UNCHANGED <<script, task, epochs, epoch, loader, test_loader,
                   batch_idx, data_idx, training, params, batches, steps,
                   last_fwd, models, returned, is_validation, correct,
                   test_ret, eval_epochs, argv, args, num_conv, best_acc,
                   model_best_acc, seen, requirements, file, file0, writes,
                   title, out_channels, num_layers>>
    /\ UNCHANGED <<x_arg, x, m, i, fpc, ret, adgnVars>>

\* optimizer.step(); tot_loss += loss.item()
Ggnn_Step ==
    /\ script = "GGNN_Train"
    /\ pc = "step"
    /\ trace' = Append(trace, "step")
    /\ params' = params + 1
    /\ steps' = steps + 1
    /\ batch_idx' = batch_idx + 1
    /\ pc' = "batch_head"
    /\ UNCHANGED <<script, task, epochs, epoch, loader, test_loader,
                   data_idx, training, batches, last_fwd, models, returned,
                   is_validation, correct, test_ret, eval_epochs, argv, args,
                   num_conv, best_acc, model_best_acc, seen, requirements,
                   file, file0, writes, title, out_channels, num_layers>>
    /\ UNCHANGED <<x_arg, x, m, i, fpc, ret, adgnVars>>

\* if epoch % 10 == 0
Ggnn_EvalDue == epoch % 10 = 0

\* tot_loss /= len(loader.dataset); the evaluation test
Ggnn_EpochEnd ==
    /\ script = "GGNN_Train"
    /\ pc = "epoch_end"
    /\ pc' = IF Ggnn_EvalDue THEN "eval" ELSE "epoch_head"
    /\ UNCHANGED <<script, task, epochs, epoch, loader, test_loader,
                   batch_idx, data_idx, training, params, trace, batches,
                   steps, last_fwd, models, returned, is_validation, correct,
                   test_ret, eval_epochs, argv, args, num_conv, best_acc,
                   model_best_acc, seen, requirements, file, file0, writes,
                   title, out_channels, num_layers>>
    /\ UNCHANGED <<x_arg, x, m, i, fpc, ret, adgnVars>>

\* model.eval()
Ggnn_EvalMode ==
    /\ script = "GGNN_Train"
    /\ pc = "eval"
    /\ training' = FALSE
    /\ data_idx' = 0
    /\ pc' = "eval_batch"
    /\ UNCHANGED <<script, task, epochs, epoch, loader, test_loader,
                   batch_idx, params, trace, batches, steps, last_fwd,
                   models, returned, is_validation, correct, test_ret,
                   eval_epochs, argv, args, num_conv, best_acc,
                   model_best_acc, seen, requirements, file, file0, writes,
                   title, out_channels, num_layers>>
    /\ UNCHANGED <<x_arg, x, m, i, fpc, ret, adgnVars>>

\* acc = pred.eq(data.y[mask]).sum().item() / mask.sum().item()
MaskedAcc(data, pred, mask) ==
    Frac(EqSum(Masked(pred, mask), Masked(data.y, mask)), MaskSum(mask))

\* accs over masks = [data.train_mask, data.val_mask, data.test_mask]
Accs(data, pred) ==
    << MaskedAcc(data, pred, data.train_mask),
       MaskedAcc(data, pred, data.val_mask),
       MaskedAcc(data, pred, data.test_mask) >>

\* (variant: the latest accuracies replace the best ones)
BestAccLatest(best, accs) == accs

\* best_acc[k] = max(best_acc[k], accs[k])
BestAccUpdate(best, accs) == [k \in 1..3 |-> RatMax(best[k], accs[k])]

\* model.best_acc = best_acc[2]
ModelBestAcc(best) == best[3]

\* the body of "for data in test_loader": forward under no_grad, the three
\* masked accuracies, the best-accuracy update
Ggnn_EvalBatch ==
    /\ script = "GGNN_Train"
    /\ pc = "eval_batch"
    /\ data_idx < Len(test_loader)
    /\ LET data == test_loader[data_idx + 1]
       IN \E pred \in [1..Len(data.y) -> Classes] :
            LET accs == Accs(data, pred)
            IN /\ best_acc' = BestAccUpdate(best_acc, accs)
               /\ model_best_acc' = ModelBestAcc(best_acc')
               /\ seen' = [k \in 1..3 |-> seen[k] \cup {accs[k]}]
    /\ last_fwd' = [by |-> "eval", training |-> training, grad |-> FALSE]
    /\ data_idx' = data_idx + 1
    /\ UNCHANGED <<script, pc, task, epochs, epoch, loader, test_loader,
                   batch_idx, training, params, trace, batches, steps,
                   models, returned, is_validation, correct, test_ret,
                   eval_epochs, argv, args, num_conv, requirements, file,
                   file0, writes, title, out_channels, num_layers>>
    /\ UNCHANGED <<x_arg, x, m, i, fpc, ret, adgnVars>>

\* print("Epoch: {:03d}, Train Acc: ..."), after the evaluation loop
Ggnn_EvalPrint ==
    /\ script = "GGNN_Train"
    /\ pc = "eval_batch"
    /\ data_idx = Len(test_loader)
    /\ eval_epochs' = Append(eval_epochs, epoch)
    /\ pc' = "epoch_head"
    /\ UNCHANGED <<script, task, epochs, epoch, loader, test_loader,
                   batch_idx, data_idx, training, params, trace, batches,
                   steps, last_fwd, models, returned, is_validation, correct,
                   test_ret, argv, args, num_conv, best_acc, model_best_acc,
                   seen, requirements, file, file0, writes, title,
                   out_channels, num_layers>>
    /\ UNCHANGED <<x_arg, x, m, i, fpc, ret, adgnVars>>

\* with open(file_path, "w") as json_file: json.dump(requirements, json_file)
Ggnn_Dump ==
    /\ script = "GGNN_Train"
    /\ pc = "dump"
    /\ file' = [exists |-> TRUE, content |-> requirements]
    /\ writes' = writes + 1
    /\ pc' = "return"
    /\ UNCHANGED <<script, task, epochs, epoch, loader, test_loader,
                   batch_idx, data_idx, training, params, trace, batches,
                   steps, last_fwd, models, returned, is_validation, correct,
                   test_ret, eval_epochs, argv, args, num_conv, best_acc,
                   model_best_acc, seen, requirements, file0, title,
                   out_channels, num_layers>>
    /\ UNCHANGED <<x_arg, x, m, i, fpc, ret, adgnVars>>

\* return model
Ggnn_Return ==
    /\ script = "GGNN_Train"
    /\ pc = "return"
    /\ returned' = models
    /\ pc' = "visualize"
    /\ UNCHANGED <<script, task, epochs, epoch, loader, test_loader,
                   batch_idx, data_idx, training, params, trace, batches,
                   steps, last_fwd, models, is_validation, correct, test_ret,
                   eval_epochs, argv, args, num_conv, best_acc,
                   model_best_acc, seen, requirements, file, file0, writes,
                   title, out_channels, num_layers>>
    /\ UNCHANGED <<x_arg, x, m, i, fpc, ret, adgnVars>>

\* visualization_nodembs(dataset, model): forward passes, then plt.title(...)
Ggnn_Visualize ==
    /\ script = "GGNN_Train"
    /\ pc = "visualize"
    /\ last_fwd' = [by |-> "visualize", training |-> training, grad |-> TRUE]
    /\ title' = [epoch |-> args.epoch, conv |-> args.conv,
                 accuracy |-> model_best_acc]
    /\ pc' = "done"
    /\ UNCHANGED <<script, task, epochs, epoch, loader, test_loader,
                   batch_idx, data_idx, training, params, trace, batches,
                   steps, models, returned, is_validation, correct, test_ret,
                   eval_epochs, argv, args, num_conv, best_acc,
                   model_best_acc, seen, requirements, file, file0, writes,
                   out_channels, num_layers>>
    /\ UNCHANGED <<x_arg, x, m, i, fpc, ret, adgnVars>>

\* (variant: the dump sits in a finally clause and also runs on an exception)
Ggnn_FrameworkErrorDumps ==
    /\ script = "GGNN_Train"
    /\ pc \in {"epoch_head", "batch_head", "zero_grad", "forward", "loss",
               "backward", "step", "epoch_end", "eval", "eval_batch"}
    /\ epoch < epochs \/ pc # "epoch_head"
    /\ pc' = "crashed"
    /\ file' = [exists |-> TRUE, content |-> requirements]
    /\ UNCHANGED <<script, task, epochs, epoch, loader, test_loader,
                   batch_idx, data_idx, training, params, trace, batches,
                   steps, last_fwd, models, returned, is_validation, correct,
                   test_ret, eval_epochs, argv, args, num_conv, best_acc,
                   model_best_acc, seen, requirements, file0, writes,
                   title, out_channels, num_layers>>
    /\ UNCHANGED <<x_arg, x, m, i, fpc, ret, adgnVars>>

\* an exception raised by a framework call inside the epoch loop (there is no
\* try/except in train): the run ends
Ggnn_FrameworkError ==
    /\ script = "GGNN_Train"
    /\ pc \in {"epoch_head", "batch_head", "zero_grad", "forward", "loss",
               "backward", "step", "epoch_end", "eval", "eval_batch"}
    /\ epoch < epochs \/ pc # "epoch_head"
    /\ pc' = "crashed"
    /\ UNCHANGED <<script, task, epochs, epoch, loader, test_loader,
                   batch_idx, data_idx, training, params, trace, batches,
                   steps, last_fwd, models, returned, is_validation, correct,
                   test_ret, eval_epochs, argv, args, num_conv, best_acc,
                   model_best_acc, seen, requirements, file, file0, writes,
                   title, out_channels, num_layers>>
    /\ UNCHANGED <<x_arg, x, m, i, fpc, ret, adgnVars>>

\* python GGNN_Train.py [--epoch E] [--conv C], the telemetry file absent or
\* left by an earlier run
InitGgnn ==
    /\ script = "GGNN_Train"
    /\ pc = "parse"
    /\ argv \in [epoch : {<<>>} \cup {<<v>> : v \in -1..MaxEpochs},
                 conv : {<<>>} \cup {<<v>> : v \in -1..MaxConv}]
    /\ args = [epoch |-> 0, conv |-> 0]
    /\ num_conv = 0
    /\ task = "node"
    /\ epochs = 0
    /\ epoch = 0
    /\ loader = <<PubMedData>>
    /\ test_loader = loader
    /\ batch_idx = 0
    /\ data_idx = 0
    /\ training = TRUE
    /\ params = 0
    /\ trace = <<>>
    /\ batches = 0
    /\ steps = 0
    /\ last_fwd = [by |-> "none", training |-> TRUE, grad |-> TRUE]
    /\ models = 0
    /\ returned = 0
    /\ is_validation = FALSE
    /\ correct = 0
    /\ test_ret = <<>>
    /\ eval_epochs = <<>>
    /\ best_acc = <<>>
    /\ model_best_acc = <<>>
    /\ seen = <<{}, {}, {}>>
    /\ requirements = <<>>
    /\ file0 \in {NoFile} \cup
                 {[exists |-> TRUE, content |-> PriorRun(k)] : k \in 0..MaxPriorEpochs}
    /\ file = file0
    /\ writes = 0
    /\ title = <<>>
    /\ out_channels = 0
    /\ num_layers = 0
    /\ x_arg = <<>>
    /\ x = NoTensor
    /\ m = NoTensor
    /\ i = 0
    /\ fpc = "idle"
    /\ ret = NoTensor

NextGgnn ==
    \/ Ggnn_ParseArgs
    \/ Ggnn_CallTrain
    \/ Ggnn_Construct
    \/ Ggnn_LoadRequirements
    \/ Ggnn_InitialStats
    \/ Ggnn_EpochHead
    \/ Ggnn_BatchHead
    \/ Ggnn_ZeroGrad
    \/ Ggnn_Forward
    \/ Ggnn_Loss
    \/ Ggnn_Backward
    \/ Ggnn_Step
    \/ Ggnn_EpochEnd
    \/ Ggnn_EvalMode
    \/ Ggnn_EvalBatch
    \/ Ggnn_EvalPrint
    \/ Ggnn_Dump
    \/ Ggnn_Return
    \/ Ggnn_Visualize
    \/ Ggnn_FrameworkError

\* ------------------------------------------------- the two training scripts
\* One run of GNN.py's train or of GGNN_Train.py.
Init ==
    \/ InitGnn /\ IdleConv /\ IdleAdgn /\ IdleGgnn
    \/ InitGgnn /\ IdleAdgn

Next ==
    \/ NextGnn
    \/ NextTestFn
    \/ NextGgnn

Spec == Init /\ [][Next]_vars


\* ------------------------------------------------------------------ C1
\* the input row r, zero-padded on the right to out_channels columns
PaddedRow(r) ==
    [c \in 1..out_channels |-> IF c <= Len(x_arg[r]) THEN x_arg[r][c] ELSE 0]

\* C1: forward raises ValueError exactly when the input width exceeds
\* out_channels, and then no matmul/propagate/GRU call has been made and the
\* loop was never entered; when the width is at most out_channels the guard
\* passes and from the padding step on x has the input's rows, each exactly
\* out_channels wide, the original columns first and zeros after them.
C1_GuardAndPadding ==
    /\ fpc # "guard" =>
          ((fpc = "raised") <=> (Len(x_arg[1]) > out_channels))
    /\ fpc = "raised" =>
          /\ x = Tensor(x_arg)
          /\ m = NoTensor
          /\ i = 0
          /\ ret = NoTensor
    /\ fpc \in {"loop", "matmul", "propagate", "rnn", "return", "done"} =>
          /\ Len(x_arg[1]) <= out_channels
          /\ Len(x.base) = Len(x_arg)
          /\ \A r \in 1..Len(x_arg) : x.base[r] = PaddedRow(r)

\* a too-wide input has been rejected
C1_Witness ==
    /\ fpc = "raised"
    /\ Len(x_arg[1]) > out_channels

\* a strictly narrower input has been padded and propagated
C1_WitnessPadded ==
    /\ fpc = "done"
    /\ Len(x_arg[1]) < out_channels
    /\ Len(ret.base[1]) = out_channels

\* ------------------------------------------------------------------ C2
RECURSIVE Unrolled(_)
\* the calls of k complete propagation steps, step j using weight slice j
\* and its GRU taking the state left by step j-1 as hidden operand
Unrolled(k) ==
    IF k = 0 THEN <<>>
    ELSE LET p == Unrolled(k - 1)
         IN p \o << Op("matmul", k - 1, -1),
                    Op("propagate", -1, -1),
                    Op("rnn", -1, Len(p)) >>

\* C2: forward runs exactly num_layers steps; step i applies matmul with
\* weight slice i, then propagate, then the GRU, to the state left by step
\* i-1; the value returned is the padded input after num_layers such steps
\* (the padded input itself when num_layers = 0).
C2_FixedUnrolling ==
    /\ fpc \in {"loop", "matmul", "propagate", "rnn", "return", "done"} =>
          /\ i <= num_layers
          /\ x.hist = Unrolled(i)
    /\ fpc \in {"matmul", "propagate", "rnn"} => i < num_layers
    /\ fpc = "propagate" =>
          m.hist = Unrolled(i) \o << Op("matmul", i, -1) >>
    /\ fpc = "rnn" =>
          m.hist = Unrolled(i) \o << Op("matmul", i, -1), Op("propagate", -1, -1) >>
    /\ fpc \in {"return", "done"} => i = num_layers
    /\ fpc = "done" =>
          /\ ret.hist = Unrolled(num_layers)
          /\ ret.base = [r \in 1..Len(x_arg) |-> PaddedRow(r)]
          /\ num_layers = 0 => ret = [base |-> ret.base, hist |-> <<>>]

\* a forward with at least two steps has returned
C2_Witness ==
    /\ fpc = "done"
    /\ num_layers >= 2
    /\ Len(ret.hist) = 3 * num_layers

\* ------------------------------------------------------------------ C3
\* the order every training batch goes through
Stages == <<"zero_grad", "forward", "loss", "backward", "step">>

\* t without immediate repetitions
RECURSIVE Dedup(_)
Dedup(t) ==
    IF Len(t) <= 1 THEN t
    ELSE IF t[1] = t[2] THEN Dedup(Tail(t))
    ELSE <<t[1]>> \o Dedup(Tail(t))

IsPrefix(p, q) == Len(p) <= Len(q) /\ SubSeq(q, 1, Len(p)) = p

\* positions of a training run between two batches
BetweenBatches ==
    {"batch_head", "epoch_end", "epoch_head", "test_eval", "test_batch",
     "log_acc", "eval", "eval_batch", "dump", "return", "visualize", "done"}

\* C3: in both training loops the calls made for a batch are zero_grad,
\* forward, loss, backward, step in that order; there is exactly one
\* optimizer step per batch taken from the loader; the parameters change
\* only with an optimizer step (their version is the number of steps, also
\* during and after evaluations); one model is constructed per call of train
\* and it is the one returned.
C3_TrainingStep ==
    /\ IsPrefix(Dedup(trace), Stages)
    /\ pc = "forward" => trace = <<"zero_grad">>
    /\ pc = "loss" => Dedup(trace) = SubSeq(Stages, 1, 2)
    /\ pc = "backward" => Dedup(trace) = SubSeq(Stages, 1, 3)
    /\ pc = "step" => Dedup(trace) = SubSeq(Stages, 1, 4)
    /\ (pc = "batch_head" /\ batch_idx > 0) => Dedup(trace) = Stages
    /\ Cardinality({k \in 1..Len(trace) : trace[k] = "step"}) <= 1
    /\ steps <= batches
    /\ batches <= steps + 1
    /\ pc \in BetweenBatches => steps = batches
    /\ params = steps
    /\ models <= 1
    /\ pc \in {"visualize", "done"} => (models = 1 /\ returned = 1)
    /\ pc \in {"epoch_head", "batch_head", "return"} => models = 1

\* a run with several batches and an evaluation has returned its model
C3_Witness ==
    /\ pc = "done"
    /\ script = "GNN"
    /\ steps >= 4
    /\ Len(loader) = 2
    /\ eval_epochs # <<>>
    /\ returned = 1

\* ------------------------------------------------------------------ C5
\* the samples one run of n epochs records: epoch arguments -1, 0, .., n-1
RunSamples(n) == [j \in 1..(n + 1) |-> j - 2]

PriorContent == IF file0.exists THEN file0.content ELSE <<>>

TrainCompleted == script = "GGNN_Train" /\ pc \in {"return", "visualize", "done"}

\* C5: an existing telemetry file is loaded as the initial requirements, and
\* the file a completed train() leaves holds everything the file held before
\* the run, followed by the samples of this run.
C5_TelemetryAccumulates ==
    /\ (script = "GGNN_Train" /\ pc = "stats") => requirements = PriorContent
    /\ TrainCompleted =>
          /\ file.exists
          /\ IsPrefix(PriorContent, file.content)
          /\ file.content =
                PriorContent \o RunSamples(IF epochs < 0 THEN 0 ELSE epochs)

\* a completed run that found a file and ran at least two epochs
C5_Witness ==
    /\ TrainCompleted
    /\ file0.exists
    /\ epochs >= 2
    /\ Len(file.content) > Len(file0.content)

\* ------------------------------------------------------------------ C6
\* C6: the telemetry file is opened for writing at most once, exactly once
\* on a call that completes, and only after the last epoch has finished;
\* while it has not been written (in particular on every run ended by an
\* exception) it is as it was before the run, although requirements then
\* already holds the initial sample and one sample per epoch started; a
\* completed run of epochs >= 0 epochs persists epochs + 1 new samples.
C6_SingleFinalWrite ==
    script = "GGNN_Train" =>
        /\ writes <= 1
        /\ (writes = 1) <=> TrainCompleted
        /\ writes = 0 => file = file0
        /\ writes = 1 => /\ epoch = (IF epochs < 0 THEN 0 ELSE epochs)
                         /\ steps = epoch * Len(loader)
        /\ (pc = "crashed" /\ models = 1) =>
              /\ file = file0
              /\ Len(requirements) = Len(PriorContent) + 1 + epoch
              /\ requirements # PriorContent
        /\ (TrainCompleted /\ epochs >= 0) =>
              Len(file.content) = Len(PriorContent) + epochs + 1

\* a run ended by an exception in its third epoch or later
C6_Witness ==
    /\ script = "GGNN_Train"
    /\ pc = "crashed"
    /\ epoch >= 3
    /\ epoch < epochs
    /\ Len(requirements) > Len(file.content)

\* ------------------------------------------------------------------ C7
PastParse == script = "GGNN_Train" /\ pc # "parse"
PastCall == PastParse /\ pc # "call_train"
ModelBuilt == PastCall /\ models = 1

\* C7 as stated: every run performs exactly --epoch training epochs with a
\* convolution of exactly --conv steps.
C7_Original ==
    (script = "GGNN_Train" /\ pc = "done") =>
        /\ epoch = args.epoch
        /\ steps = args.epoch * Len(loader)
        /\ num_layers = args.conv

\* C7 (amended): --epoch defaults to 100 and --conv to 3; the parsed values
\* reach train unchanged as epochs and num_conv; a model is built only for
\* --conv >= 0 and then has exactly --conv propagation steps; a completed run
\* has performed exactly --epoch epochs when --epoch >= 0 and none when it is
\* negative.
C7_FlagsReachTrain ==
    /\ PastParse =>
          /\ args.epoch = (IF argv.epoch = <<>> THEN 100 ELSE argv.epoch[1])
          /\ args.conv = (IF argv.conv = <<>> THEN 3 ELSE argv.conv[1])
    /\ PastCall => (epochs = args.epoch /\ num_conv = args.conv)
    /\ ModelBuilt => (args.conv >= 0 /\ num_layers = args.conv)
    /\ (PastCall /\ pc \notin {"construct", "crashed"}) => models = 1
    /\ (PastCall /\ args.conv < 0) => pc \in {"construct", "crashed"}
    /\ TrainCompleted =>
          /\ epoch = (IF args.epoch >= 0 THEN args.epoch ELSE 0)
          /\ steps = epoch * Len(loader)
          /\ batches = steps

\* a run with both flags omitted has completed
C7_Witness ==
    /\ script = "GGNN_Train"
    /\ pc = "done"
    /\ argv.epoch = <<>>
    /\ argv.conv = <<>>
    /\ epoch = 100
    /\ num_layers = 3

\* ------------------------------------------------------------------ C9
\* the multiples of 10 in 1..h and in 0..h, ascending
MultiplesFrom1(h) == IF h < 10 THEN <<>> ELSE [j \in 1..(h \div 10) |-> 10 * j]
MultiplesFrom0(h) ==
    IF h < 0 THEN <<>> ELSE [j \in 1..(h \div 10 + 1) |-> 10 * (j - 1)]

\* the evaluations due up to and including epoch h
EvalsDue(h) == IF script = "GNN" THEN MultiplesFrom0(h) ELSE MultiplesFrom1(h)

\* positions inside an epoch, before its evaluation has been reported
InsideEpoch ==
    {"batch_head", "zero_grad", "forward", "loss", "backward", "step",
     "epoch_end", "test_eval", "test_batch", "log_acc", "eval", "eval_batch"}

\* C9: the epochs whose evaluation has been reported are exactly the
\* multiples of 10 among the epochs gone through: among 1..epochs in
\* GGNN_Train.py (none when epochs < 10), among 0..epochs-1 in GNN.py (epoch
\* 0 first); a run an exception ended has evaluated exactly those due before
\* the epoch it ended in, or also that one.
C9_PeriodicEvaluation ==
    script \in {"GNN", "GGNN_Train"} =>
        /\ pc \in InsideEpoch => eval_epochs = EvalsDue(epoch - 1)
        /\ pc \in {"epoch_head", "dump", "return", "visualize", "done"} =>
              eval_epochs = EvalsDue(epoch)
        /\ pc = "crashed" => eval_epochs \in {EvalsDue(epoch - 1), EvalsDue(epoch)}
        /\ \A k \in 1..Len(eval_epochs) : eval_epochs[k] % 10 = 0
        /\ (script = "GGNN_Train" /\ pc = "done") =>
              /\ eval_epochs = MultiplesFrom1(epochs)
              /\ epochs < 10 => eval_epochs = <<>>
        /\ (script = "GNN" /\ pc = "done") =>
              /\ eval_epochs = MultiplesFrom0(epochs - 1)
              /\ epochs >= 1 => eval_epochs[1] = 0

\* a GNN.py run that evaluated at epochs 0 and 10
C9_Witness ==
    /\ script = "GNN"
    /\ pc = "done"
    /\ eval_epochs = <<0, 10>>

\* a GGNN_Train.py run that evaluated at 10, 20, ..., 100
C9_WitnessGgnn ==
    /\ script = "GGNN_Train"
    /\ pc = "done"
    /\ Len(eval_epochs) = 10
    /\ eval_epochs[10] = 100

\* ------------------------------------------------------------------ C10
\* the largest of 0 and the fractions in S
RatMaxOf(S) ==
    IF S = {} THEN <<0, 1>>
    ELSE LET top == CHOOSE p \in S : \A q \in S : ~RatLess(p, q)
         IN IF RatLess(<<0, 1>>, top) THEN top ELSE <<0, 1>>

C10_State ==
    (script = "GGNN_Train" /\ models = 1) =>
        /\ \A k \in 1..3 : best_acc[k] = RatMaxOf(seen[k])
        /\ seen[3] # {} => model_best_acc = best_acc[3]
        /\ seen[3] = {} => model_best_acc = <<-1, 1>>
        /\ pc = "done" => title.accuracy = model_best_acc

C10_Step ==
    (script = "GGNN_Train" /\ models = 1 /\ best_acc # <<>>) =>
        \A k \in 1..3 : ~RatLess(best_acc'[k], best_acc[k])

\* C10: once the model is built, best_acc[k] is the maximum of 0 and the
\* accuracies evaluations have produced for split k, and no step decreases
\* it; after an evaluation model.best_acc is best_acc[2] (third entry, the
\* test split); the title shows model.best_acc, which is still the
\* constructor's -1 when no evaluation has happened.
C10_BestAccuracy == [](C10_State) /\ [][C10_Step]_vars

\* a completed run whose evaluations produced both test accuracies
C10_Witness ==
    /\ script = "GGNN_Train"
    /\ pc = "done"
    /\ Len(eval_epochs) >= 2
    /\ Cardinality(seen[3]) = 2
    /\ title.accuracy = <<1, 1>>

\* a completed run without any evaluation
C10_WitnessNoEval ==
    /\ script = "GGNN_Train"
    /\ pc = "done"
    /\ eval_epochs = <<>>
    /\ title.accuracy = <<-1, 1>>
    /\ best_acc[3] = <<0, 1>>

\* ------------------------------------------------------------------ C4
\* nodes the mask chosen by is_validation selects, over the whole loader
RECURSIVE ChosenMaskTotal(_)
ChosenMaskTotal(ld) ==
    IF ld = <<>> THEN 0
    ELSE MaskSum(IF is_validation THEN Head(ld).val_mask ELSE Head(ld).test_mask)
         + ChosenMaskTotal(Tail(ld))

\* C4: the accuracy test() returns in the node task is the number of correct
\* predictions among the nodes the chosen mask selects divided by the number
\* of nodes that mask selects, so it is at most 1.
C4_MaskedAccuracy ==
    (script = "test" /\ pc = "done" /\ task = "node") =>
        /\ test_ret[1] * ChosenMaskTotal(test_loader) = correct * test_ret[2]
        /\ test_ret[1] <= test_ret[2]

\* the same for the test mask alone, as train() calls test()
C4_TestMaskOnly ==
    (script = "test" /\ pc = "done" /\ task = "node" /\ ~is_validation) =>
        /\ test_ret[1] * ChosenMaskTotal(test_loader) = correct * test_ret[2]
        /\ test_ret[1] <= test_ret[2]

\* ----------------------------------------------------------------- C11
\* positions of one training batch: zero_grad, forward, loss, backward, step
BatchPositions == {"zero_grad", "forward", "loss", "backward", "step"}

\* positions of an evaluation, from its first forward pass to its report
EvalPositions == {"test_batch", "log_acc", "eval_batch", "eval_print"}

\* the epoch the loop is in or has just finished was evaluated
JustEvaluated ==
    /\ eval_epochs # <<>>
    /\ eval_epochs[Len(eval_epochs)] = epoch

\* C11: in both training loops every step of a training batch runs with the
\* model in training mode and its forward pass tracks gradients; every
\* evaluation forward pass runs in evaluation mode without gradient
\* tracking; an evaluation leaves the model in evaluation mode and the next
\* epoch is back in training mode before its first batch.
C11_ModeDiscipline ==
    (script \in {"GNN", "GGNN_Train"}) =>
        /\ pc \in BatchPositions \cup {"batch_head"} => training
        /\ last_fwd.by = "train" => (last_fwd.training /\ last_fwd.grad)
        /\ pc \in EvalPositions => ~training
        /\ last_fwd.by = "eval" => (~last_fwd.training /\ ~last_fwd.grad)
        /\ (pc = "epoch_head" /\ JustEvaluated) => ~training

\* GNN.py: a batch of epoch 1 has been stepped after the evaluation of epoch 0
C11_Witness ==
    /\ script = "GNN"
    /\ pc = "step"
    /\ eval_epochs = <<0>>
    /\ epoch = 1
    /\ last_fwd.by = "train"
    /\ training

\* GGNN_Train.py: a batch of epoch 11 is stepped after the evaluation of
\* epoch 10
C11_WitnessGgnn ==
    /\ script = "GGNN_Train"
    /\ pc = "step"
    /\ eval_epochs = <<10>>
    /\ epoch = 11
    /\ last_fwd.by = "train"
    /\ training

\* the loop is back at the epoch head with the model left in evaluation mode
C11_WitnessLeftInEval ==
    /\ pc = "epoch_head"
    /\ JustEvaluated
    /\ last_fwd.by = "eval"
    /\ ~training

\* ----------------------------------------------------------------- C12
\* the configuration the caller of ADGN(...) chose
ChosenConfig ==
    [gamma |-> adgn_args.gamma, epsilon |-> adgn_args.epsilon,
     antisymmetry |-> adgn_args.antisymmetric]

\* C12: once ADGN is built every layer of self.conv holds the epsilon,
\* gamma and antisymmetric values given to the ADGN constructor, and every
\* layer call of forward uses them; forward calls the layers in
\* construction order, each exactly once.
C12_LayersConfigured ==
    (mpc \in {"forward", "conv_loop", "linear", "done"}) =>
        /\ \A k \in 1..Len(conv) : conv[k] = ChosenConfig
        /\ \A k \in 1..Len(applied) :
              /\ applied[k].gamma = adgn_args.gamma
              /\ applied[k].epsilon = adgn_args.epsilon
              /\ applied[k].antisymmetry = adgn_args.antisymmetric
        /\ \A k \in 1..Len(applied) : applied[k].layer = k
        /\ mpc \in {"linear", "done"} => Len(applied) = Len(conv)

\* the part about the order alone: forward calls the layers of self.conv in
\* construction order, each exactly once, with the configuration the layer
\* holds
C12_LayersInOrder ==
    (mpc \in {"conv_loop", "linear", "done"}) =>
        /\ Len(applied) = layer_idx
        /\ \A k \in 1..Len(applied) : applied[k] = LayerCall(k, conv[k])
        /\ mpc \in {"linear", "done"} => Len(applied) = Len(conv)

\* the layers hold ADGNConv's defaults whatever the constructor was given,
\* and range(1, num_layers) builds one layer fewer than num_layers
C12_LayersDefault ==
    (mpc \in {"forward", "conv_loop", "linear", "done"}) =>
        /\ Len(conv) = RangeLen(1, adgn_args.num_layers)
        /\ \A k \in 1..Len(conv) : conv[k] = NewConvLayer

\* forward has finished on a two-layer model built with non-default values
C12_Witness ==
    /\ mpc = "done"
    /\ Len(conv) = 2
    /\ Len(applied) = 2
    /\ adgn_args.epsilon # DefaultEpsilon
    /\ adgn_args.gamma # DefaultGamma
    /\ ~adgn_args.antisymmetric

====
